---- MODULE Spec2Model ----
(***************************************************************************)
(* A model of imageflow.py (PyQt ImageFlow): the ImageFlowWidget, its      *)
(* Animator, the option dictionary and the per-image cache state.          *)
(*                                                                         *)
(* Numbers.  Positions, targets and the velocity are Python floats in the  *)
(* program.  Here they are fixed-point numbers counted in units of         *)
(* 1/Scale of an image index, so index i is the position i * Scale.  With  *)
(* Scale = INTERVAL the acceleration 4/INTERVAL is exactly Accel = 4       *)
(* units.  math.sqrt is rounded down to the grid (Isqrt); round, floor and *)
(* ceil are computed as Python computes them (round is half-to-even).      *)
(*                                                                         *)
(* None.  Python's None is the integer None == -1, a value that no         *)
(* position, target or index of the program ever takes (all are clamped    *)
(* to be >= 0 before they are stored).                                     *)
(*                                                                         *)
(* Every handler is one action.  The variable call records the handler     *)
(* that ran last and what it did to the outside: the exception it raised,  *)
(* the signals it emitted, whether it asked for a repaint (QWidget.update) *)
(* and its return value.                                                   *)
(*                                                                         *)
(* Specifications.  Spec: the widget's position methods and input events.  *)
(* SpecStop: the position methods with direct calls of Animator.stop.      *)
(* SpecAnim, SpecAnimFair: the animator by itself, the second with the     *)
(* timer firing as long as it is active.  SpecHit: hit-testing during      *)
(* animations.  SpecOptions: setOptions and the image caches of a widget   *)
(* that loads its images when it paints (loadAsync=False).                 *)
(***************************************************************************)
EXTENDS Integers, Sequences, FiniteSets

VARIABLES
    paths,        \* the module-level name `paths` read by setImages: its length, or Unbound
    images,       \* ImageFlowWidget.images: a sequence of Image records
    pos,          \* ImageFlowWidget._pos: None or a position in units
    o,            \* ImageFlowWidget._o: option key -> value
    timerActive,  \* Animator.timer.isActive()
    target,       \* Animator._target: None or a position in units
    v,            \* Animator._v in units per tick
    dirty,        \* Renderer.dirty
    worker,       \* ImageFlowWidget.worker: the Worker's fields and where its thread is
    ui,           \* where the UI thread is: "idle" between handlers, or inside Worker.reset
    call          \* the last handler and its outputs

vars == <<paths, images, pos, o, timerActive, target, v, dirty, worker, ui, call>>

----------------------------------------------------------------------------
(* Bounds of the model *)

\* the longest image list handed to setImages
MaxCount == 3

\* the most (key, value) pairs in one setOptions call
MaxOptLen == 2

\* the round-trip model changes at most this many options from their defaults
MaxChanged == 2

\* the number of images of the worker model
MaxWorkerCount == 2

\* self.buffer.width(), the width of the widget in pixels
BufferWidth == 800

\* the largest imagesPerSide of the layout model
MaxPerSide == 1

----------------------------------------------------------------------------
(* Program constants *)

INTERVAL == 30

Scale == INTERVAL

\* Animator._a = 4. / INTERVAL, in units
Accel == (4 * Scale) \div INTERVAL

STATE_INIT == 1

STATE_READY == 2

STATE_FAILED == 3

None == 0 - 1

\* the name `paths` is not bound in the module's namespace
Unbound == 0 - 1

OPTIONS_REBUILD_CACHE == {"size", "background", "reflection", "reflectionFactor"}

----------------------------------------------------------------------------
(* Python numbers on the fixed-point grid *)

Min(a, b) == IF a <= b THEN a ELSE b

Max(a, b) == IF a >= b THEN a ELSE b

Abs(a) == IF a >= 0 THEN a ELSE 0 - a

\* math.sqrt, rounded down to the grid
Isqrt(n) == CHOOSE r \in 0..n : r * r <= n /\ (r + 1) * (r + 1) > n

\* math.floor of a position, as an index
Floor(p) == p \div Scale

\* math.ceil of a position, as an index
Ceil(p) == IF p % Scale = 0 THEN p \div Scale ELSE (p \div Scale) + 1

\* round(num / den) for den > 0: Python 3 rounds half to even
RoundDiv(num, den) ==
    LET q == num \div den
        r == num % den
    IN  IF 2 * r < den THEN q
        ELSE IF 2 * r > den THEN q + 1
        ELSE IF q % 2 = 0 THEN q ELSE q + 1

\* round(position), as an index
Round(p) == RoundDiv(p, Scale)

----------------------------------------------------------------------------
(* Option values.  A value is a record [t, n, m, s]: its Python type t and *)
(* its payload: n for a number (a bool is 0/1, a float is counted in       *)
(* thousandths), n x m for a QSize, s for a str or a colour.               *)

IntV(k) == [t |-> "int", n |-> k, m |-> 0, s |-> ""]

BoolV(b) == [t |-> "bool", n |-> IF b THEN 1 ELSE 0, m |-> 0, s |-> ""]

FloatV(thousandths) == [t |-> "float", n |-> thousandths, m |-> 0, s |-> ""]

StrV(str) == [t |-> "str", n |-> 0, m |-> 0, s |-> str]

QSizeV(w, h) == [t |-> "QSize", n |-> w, m |-> h, s |-> ""]

QColorV(name) == [t |-> "QColor", n |-> 0, m |-> 0, s |-> name]

\* a Qt.GlobalColor such as Qt.black: an enum value, not a QColor instance
GlobalColorV(name) == [t |-> "GlobalColor", n |-> 0, m |-> 0, s |-> name]

\* OPTIONS[key][0], the option's type
OptionType ==
    [size |-> "QSize", rotate |-> "bool", imagesPerSide |-> "int",
     background |-> "QColor", curve |-> "str", segmentRads |-> "float",
     minScale |-> "float", vAlign |-> "float", imageVAlign |-> "float",
     reflection |-> "bool", reflectionFactor |-> "float",
     reflectionAlpha |-> "float", fadeOut |-> "bool", fadeStart |-> "float"]

\* OPTIONS[key][1], the option's default
OptionDefault ==
    [size |-> QSizeV(300, 300), rotate |-> BoolV(TRUE), imagesPerSide |-> IntV(5),
     background |-> GlobalColorV("black"), curve |-> StrV("arc"),
     segmentRads |-> FloatV(2513), minScale |-> FloatV(300), vAlign |-> FloatV(500),
     imageVAlign |-> FloatV(800), reflection |-> BoolV(FALSE),
     reflectionFactor |-> FloatV(600), reflectionAlpha |-> FloatV(400),
     fadeOut |-> BoolV(FALSE), fadeStart |-> FloatV(400)]

\* the keys of OPTIONS
OptionKeys == DOMAIN OptionType

\* isinstance(value, type): bool is a subclass of int
IsInstance(value, type) ==
    \/ value.t = type
    \/ type = "int" /\ value.t = "bool"

IsNumber(value) == value.t \in {"int", "bool", "float"}

\* the number a numeric value stands for, in thousandths
Num(value) == IF value.t = "float" THEN value.n ELSE 1000 * value.n

IsColor(value) == value.t \in {"QColor", "GlobalColor"}

\* Python's ==: numbers compare by value across int, bool and float, a QColor
\* compares equal to the Qt.GlobalColor of the same colour
PyEq(x, y) ==
    IF IsNumber(x) /\ IsNumber(y) THEN Num(x) = Num(y)
    ELSE IF IsColor(x) /\ IsColor(y) THEN x.s = y.s
    ELSE x = y

\* the type test of setOptions
TypeAccepted(value, optionType) ==
    \/ IsInstance(value, optionType)
    \/ optionType = "float" /\ IsInstance(value, "int")

\* The loop of setOptions over options.items(), from pair i on: each pair is
\* validated and assigned in turn, and the first invalid pair raises.
RECURSIVE SetOptionsLoop(_, _, _)
SetOptionsLoop(options, i, acc) ==
    IF i > Len(options) THEN acc
    ELSE LET key == options[i][1]
             value == options[i][2]
         IN  IF key \notin OptionKeys
             THEN [acc EXCEPT !.raised = "KeyError"]
             ELSE IF ~TypeAccepted(value, OptionType[key])
             THEN [acc EXCEPT !.raised = "TypeError"]
             ELSE IF ~PyEq(value, acc.o[key])
             THEN SetOptionsLoop(options, i + 1,
                      [acc EXCEPT !.o = [acc.o EXCEPT ![key] = value],
                                  !.changed = acc.changed \cup {key}])
             ELSE SetOptionsLoop(options, i + 1, acc)

\* o['imagesPerSide'] as the integer the arithmetic uses (True is 1)
ImagesPerSide == o["imagesPerSide"].n

----------------------------------------------------------------------------
(* Images *)

NoCache == [kind |-> "None", by |-> <<>>]

\* Image.__init__ for a path: ok tells whether the file decodes
\* builds counts the calls of createCache since the cache was last cleared
NewImage(ok) ==
    [ok |-> ok, loaded |-> FALSE, state |-> STATE_INIT, cache |-> NoCache, builds |-> 0]

\* Image._clearCache
ClearCache(image) == [image EXCEPT !.state = STATE_INIT, !.cache = NoCache, !.builds = 0]

\* Image.createCache: the artifact is built from the size, reflection,
\* reflectionFactor, reflectionAlpha and background of the options
CreateCache(image, options) ==
    IF ~image.ok
    THEN [image EXCEPT !.loaded = TRUE, !.state = STATE_FAILED,
                       !.cache = [kind |-> "Null", by |-> <<>>],
                       !.builds = @ + 1]
    ELSE [image EXCEPT !.loaded = TRUE, !.state = STATE_READY,
                       !.cache = [kind |-> "Built",
                                  by |-> <<options["size"], options["reflection"],
                                           options["reflectionFactor"],
                                           options["reflectionAlpha"],
                                           options["background"]>>],
                       !.builds = @ + 1]

----------------------------------------------------------------------------
(* The worker.  A Worker is a record of its fields: running (_running),    *)
(* newEvent (_newEvent is set), emptyEvent (_emptyEvent: "None", or an     *)
(* Event that is "Clear" or "Set"), loadList (_loadList: the indices of    *)
(* the images in it), timer (timer.isActive()); pc is the statement the    *)
(* worker thread is at and job the createCache call it is in.  A widget    *)
(* made with loadAsync=False has no worker (present is FALSE).             *)

NoJob == [index |-> None, cache |-> NoCache]

NoWorker ==
    [present |-> FALSE, running |-> FALSE, newEvent |-> FALSE, emptyEvent |-> "None",
     loadList |-> <<>>, timer |-> FALSE, timerStarts |-> FALSE, pc |-> "none", job |-> NoJob]

\* Worker.__init__ and start(): the thread is at the head of run's loop.  The
\* QTimer is made on the UI thread and started on the worker thread:
\* timerStarts is whether Qt starts a timer for a thread that is not its own
NewWorker(timerStarts) ==
    [present |-> TRUE, running |-> TRUE, newEvent |-> FALSE, emptyEvent |-> "None",
     loadList |-> <<>>, timer |-> FALSE, timerStarts |-> timerStarts, pc |-> "loop",
     job |-> NoJob]

\* Worker.load
Worker_load(wk, list) == [wk EXCEPT !.loadList = list, !.newEvent = TRUE]

\* Worker.shutdown
Worker_shutdown(wk) == [wk EXCEPT !.timer = FALSE, !.running = FALSE, !.newEvent = TRUE]

\* the worker thread is inside Image.createCache
InCreateCache(wk) == wk.pc \in {"assign", "publish"}

\* ImageFlowWidget.count
Count == Len(images)

----------------------------------------------------------------------------
(* The UI thread's state as one record, so that a method that calls        *)
(* another method is the composition of their effects.  signals, update,  *)
(* raised, ret and painted (the images drawn, in the order of drawing) are *)
(* what the running handler has done so far.                               *)

Cur ==
    [images |-> images, pos |-> pos, o |-> o, timerActive |-> timerActive,
     target |-> target, v |-> v, dirty |-> dirty, worker |-> worker, ui |-> ui,
     signals |-> <<>>, update |-> FALSE, raised |-> "None", ret |-> None,
     painted |-> <<>>]

Raise(w, exception) == [w EXCEPT !.raised = exception]

Emit(w, signal, value) == [w EXCEPT !.signals = Append(@, <<signal, value>>)]

\* max(0, min(position, len(self.images)-1)), in units
Clamp(position, count) == Max(0, Min(position, (count - 1) * Scale))

\* ImageFlowWidget.triggerRender
triggerRender(w) == [w EXCEPT !.dirty = TRUE, !.update = TRUE]

\* Animator.stop
Animator_stop(w) == [w EXCEPT !.timerActive = FALSE, !.target = None]

\* Animator.target
Animator_target(w) == IF w.target # None THEN w.target ELSE w.pos

\* Animator.start as it would be if a reversal did not reset the velocity
Animator_start_KeepVelocity(w, position) ==
    LET t == Clamp(position, Len(w.images))
    IN  IF ~w.timerActive
        THEN [w EXCEPT !.target = t, !.v = 0, !.timerActive = TRUE]
        ELSE IF w.target = None \/ w.pos = None
        THEN Raise(w, "TypeError")
        ELSE [w EXCEPT !.target = t]

\* Animator.start: with the timer active, (self._target - self.widget._pos) is
\* evaluated, which is a TypeError when either is None
Animator_start(w, position) ==
    LET t == Clamp(position, Len(w.images))
    IN  IF ~w.timerActive
        THEN [w EXCEPT !.target = t, !.v = 0, !.timerActive = TRUE]
        ELSE IF w.target = None \/ w.pos = None
        THEN Raise(w, "TypeError")
        ELSE IF (w.target - w.pos) * (t - w.pos) < 0
        THEN [w EXCEPT !.target = t, !.v = 0, !.timerActive = TRUE]
        ELSE [w EXCEPT !.target = t]

\* Animator.update as it would be if the move were not limited by the target
Animator_update_NoClamp(w) ==
    LET t == w.target
    IN  IF w.pos = t
        THEN Emit(Animator_stop(w), "indexChanged", t)
        ELSE IF t = None \/ w.pos = None
        THEN Raise(w, "TypeError")
        ELSE LET dist == Abs(t - w.pos)
                 vel == Min(w.v + Accel, Isqrt(2 * Accel * dist))
                 moved == IF t > w.pos THEN w.pos + vel ELSE w.pos - vel
             IN  triggerRender([w EXCEPT !.v = vel, !.pos = moved])

\* Animator.update as it would be if the velocity were not limited for braking
Animator_update_NoBrake(w) ==
    LET t == w.target
    IN  IF w.pos = t
        THEN Emit(Animator_stop(w), "indexChanged", t)
        ELSE IF t = None \/ w.pos = None
        THEN Raise(w, "TypeError")
        ELSE LET vel == w.v + Accel
                 moved == IF t > w.pos THEN Min(t, w.pos + vel)
                                       ELSE Max(t, w.pos - vel)
             IN  triggerRender([w EXCEPT !.v = vel, !.pos = moved])

\* Animator.update as it would be if it stopped within one step of the target
\* instead of at the target
Animator_update_StopsNear(w) ==
    LET t == w.target
    IN  IF w.pos = t
        THEN Emit(Animator_stop(w), "indexChanged", t)
        ELSE IF t = None \/ w.pos = None
        THEN Raise(w, "TypeError")
        ELSE IF Abs(t - w.pos) <= w.v
        THEN Emit(Animator_stop(w), "indexChanged", t)
        ELSE LET dist == Abs(t - w.pos)
                 vel == Min(w.v + Accel, Isqrt(2 * Accel * dist))
                 moved == IF t > w.pos THEN Min(t, w.pos + vel)
                                       ELSE Max(t, w.pos - vel)
             IN  triggerRender([w EXCEPT !.v = vel, !.pos = moved])

\* Animator.update as it would be if it stopped and emitted indexChanged on the
\* tick that moves the position onto the target
Animator_update_EmitsOnArrival(w) ==
    LET t == w.target
    IN  IF w.pos = t
        THEN Emit(Animator_stop(w), "indexChanged", t)
        ELSE IF t = None \/ w.pos = None
        THEN Raise(w, "TypeError")
        ELSE LET dist == Abs(t - w.pos)
                 vel == Min(w.v + Accel, Isqrt(2 * Accel * dist))
                 moved == IF t > w.pos THEN Min(t, w.pos + vel)
                                       ELSE Max(t, w.pos - vel)
                 w1 == triggerRender([w EXCEPT !.v = vel, !.pos = moved])
             IN  IF moved = t THEN Emit(Animator_stop(w1), "indexChanged", t) ELSE w1

\* Animator.update, the timer's timeout handler
Animator_update(w) ==
    LET t == w.target
    IN  IF w.pos = t
        THEN Emit(Animator_stop(w), "indexChanged", t)
        ELSE IF t = None \/ w.pos = None
        THEN Raise(w, "TypeError")
        ELSE LET dist == Abs(t - w.pos)
                 vel == Min(w.v + Accel, Isqrt(2 * Accel * dist))
                 moved == IF t > w.pos THEN Min(t, w.pos + vel)
                                       ELSE Max(t, w.pos - vel)
             IN  triggerRender([w EXCEPT !.v = vel, !.pos = moved])

\* ImageFlowWidget.setPosition as it would be without the call of animator.stop
setPosition_NoStop(w, position) ==
    LET p == Clamp(position, Len(w.images))
    IN  IF p # w.pos
        THEN Emit(triggerRender([w EXCEPT !.pos = p]), "indexChanged", p)
        ELSE w

\* ImageFlowWidget.setPosition
setPosition(w, position) ==
    LET p == Clamp(position, Len(w.images))
        w1 == Animator_stop(w)
    IN  IF p # w1.pos
        THEN Emit(triggerRender([w1 EXCEPT !.pos = p]), "indexChanged", p)
        ELSE w1

\* ImageFlowWidget.showPosition
showPosition(w, position) ==
    LET p == Clamp(position, Len(w.images))
    IN  IF p # w.pos THEN Animator_start(w, p) ELSE Animator_stop(w)

\* ImageFlowWidget.showPrevious: math.floor(None) is a TypeError
showPrevious(w) ==
    IF w.pos = None THEN Raise(w, "TypeError")
    ELSE LET p == Floor(w.pos)
         IN  showPosition(w, (IF p * Scale = w.pos THEN p - 1 ELSE p) * Scale)

\* ImageFlowWidget.showNext: math.ceil(None) is a TypeError
showNext(w) ==
    IF w.pos = None THEN Raise(w, "TypeError")
    ELSE LET p == Ceil(w.pos)
         IN  showPosition(w, (IF p * Scale = w.pos THEN p + 1 ELSE p) * Scale)

\* ImageFlowWidget.setImages: the test reads the module-level name `paths`,
\* not the argument
setImages(w, newImages, pathsLen, imagesPerSide) ==
    LET w1 == [Animator_stop(w) EXCEPT !.images = newImages, !.pos = None]
    IN  IF pathsLen = Unbound THEN Raise(w1, "NameError")
        ELSE IF pathsLen > 0
        THEN setPosition(w1, Min(Len(newImages) \div 2, imagesPerSide) * Scale)
        ELSE triggerRender(w1)

\* ImageFlowWidget.keyPressEvent: target() - 1 is a TypeError when target() is None
keyPressEvent(w, key) ==
    IF key \in {"Key_Left", "Key_Right"}
    THEN IF Animator_target(w) = None THEN Raise(w, "TypeError")
         ELSE IF key = "Key_Left"
         THEN showPosition(w, Animator_target(w) - Scale)
         ELSE showPosition(w, Animator_target(w) + Scale)
    ELSE w

\* ImageFlowWidget.wheelEvent
wheelEvent(w, delta) ==
    IF Animator_target(w) # None
    THEN showPosition(w, Animator_target(w) - RoundDiv(delta, 120) * Scale)
    ELSE w

----------------------------------------------------------------------------
(* The visible range, hit-testing and rendering *)

\* centerIndex = max(0, min(round(self._pos), len(images)-1))
CenterIndex(position, count) == Max(0, Min(Round(position), count - 1))

\* imagesLeft, the number: one more when the position is left of its rounding
ImagesLeft(position, imagesPerSide) ==
    IF position < Round(position) * Scale THEN imagesPerSide + 1 ELSE imagesPerSide

\* imagesRight, the number: one more when the position is right of its rounding
ImagesRight(position, imagesPerSide) ==
    IF position < Round(position) * Scale THEN imagesPerSide
    ELSE IF position > Round(position) * Scale THEN imagesPerSide + 1
    ELSE imagesPerSide

\* range(start, stop) as a set
Range(start, stop) == {i \in start..(stop - 1) : TRUE}

\* Renderer.renderImages: imagesLeft = range(max(0, centerIndex-imagesLeft), centerIndex)
LeftRange(position, count, imagesPerSide) ==
    LET c == CenterIndex(position, count)
    IN  Range(Max(0, c - ImagesLeft(position, imagesPerSide)), c)

\* imagesRight as it would be with the range's stop one too small
RightRange_NoPlusOne(position, count, imagesPerSide) ==
    LET c == CenterIndex(position, count)
    IN  Range(c + 1, Min(c + ImagesRight(position, imagesPerSide), count))

\* Renderer.renderImages: imagesRight = range(centerIndex+1, min(centerIndex+imagesRight+1, len))
RightRange(position, count, imagesPerSide) ==
    LET c == CenterIndex(position, count)
    IN  Range(c + 1, Min(c + ImagesRight(position, imagesPerSide) + 1, count))

\* the indices Renderer.renderImages lays out and paints: the left images, the
\* right images and the center image
RenderedIndices(position, count, imagesPerSide) ==
    LeftRange(position, count, imagesPerSide)
        \cup RightRange(position, count, imagesPerSide)
        \cup {CenterIndex(position, count)}

\* _centerRange(start, center, stop), from distance i on
RECURSIVE CenterRangeFrom(_, _, _, _)
CenterRangeFrom(start, center, stop, i) ==
    IF center - i >= start \/ center + i < stop
    THEN (IF center - i >= start THEN <<center - i>> ELSE <<>>)
         \o (IF center + i < stop THEN <<center + i>> ELSE <<>>)
         \o CenterRangeFrom(start, center, stop, i + 1)
    ELSE <<>>

\* _centerRange(start, center, stop): the generator's values in order
centerRange(start, center, stop) == <<center>> \o CenterRangeFrom(start, center, stop, 1)

\* the indices ImageFlowWidget.indexAt goes through, in order
HitTestOrder(position, count, imagesPerSide) ==
    LET c == CenterIndex(position, count)
    IN  centerRange(Max(0, c - ImagesLeft(position, imagesPerSide)), c,
                    Min(c + ImagesRight(position, imagesPerSide) + 1, count))

----------------------------------------------------------------------------
(* Renderer.getRenderInfo in numbers.  Lateral offsets, depths and scale   *)
(* factors are fixed-point numbers counted in 1/Unit; an angle is counted  *)
(* in 1/Unit of a quarter turn, so that pi/2 is exactly Unit and the       *)
(* cosine of pi/2 is exactly 0.  A quotient is rounded towards zero.       *)

\* the float 1. on the fixed-point grid
Unit == 10000

\* math.pi / 2 on the grid
HalfPi == 15708

Sgn(a) == IF a > 0 THEN 1 ELSE IF a < 0 THEN 0 - 1 ELSE 0

\* a * num / den for den > 0
MulDiv(a, num, den) == Sgn(a) * Sgn(num) * ((Abs(a) * Abs(num)) \div den)

\* math.sqrt of a number x >= 0 of the grid: bisection between lo and hi
RECURSIVE SqrtBetween(_, _, _)
SqrtBetween(x, lo, hi) ==
    IF hi - lo <= 1 THEN lo
    ELSE LET mid == (lo + hi) \div 2
         IN  IF mid * mid <= x * Unit THEN SqrtBetween(x, mid, hi)
             ELSE SqrtBetween(x, lo, mid)

Sqrt(x) == IF x >= Unit THEN SqrtBetween(x, Unit, x + 1) ELSE SqrtBetween(x, 0, Unit)

\* math.cos of an angle of x radians, 0 <= x <= pi/2: the power series up to
\* x^10, within the range of the cosine
CosSeries(x) ==
    LET x2 == (x * x) \div Unit
        t1 == x2 \div 2
        t2 == (t1 * x2) \div (12 * Unit)
        t3 == (t2 * x2) \div (30 * Unit)
        t4 == (t3 * x2) \div (56 * Unit)
        t5 == (t4 * x2) \div (90 * Unit)
    IN  Max(0, Min(Unit, Unit - t1 + t2 - t3 + t4 - t5))

\* math.cos of q quarter turns, 0 <= q <= 1
CosFirst(q) == IF q = Unit THEN 0 ELSE CosSeries((q * HalfPi) \div Unit)

\* math.cos of q quarter turns
Cos(q) ==
    LET r == Abs(q) % (4 * Unit)
    IN  IF r <= Unit THEN CosFirst(r)
        ELSE IF r <= 2 * Unit THEN 0 - CosFirst(2 * Unit - r)
        ELSE IF r <= 3 * Unit THEN 0 - CosFirst(r - 2 * Unit)
        ELSE CosFirst(4 * Unit - r)

\* math.sin of q quarter turns
Sin(q) == Sgn(q) * Cos(Abs(q) - Unit)

\* an option of type float on the grid
OnGrid(value) == value.n * (Unit \div 1000)

\* o['segmentRads'] / 2, in quarter turns
HalfSegment(options) == (options["segmentRads"].n * (Unit \div 1000) * Unit) \div (2 * HalfPi)

\* the lateral offset as it would be if the distance from the position were
\* not divided by imagesPerSide
Lateral_Undivided(d, imagesPerSide) == MulDiv(d, Unit, Scale)

\* (index - self.widget._pos) / o['imagesPerSide'], for imagesPerSide > 0
Lateral(d, imagesPerSide) == MulDiv(d, Unit, Scale * imagesPerSide)

\* the curve of getRenderInfo: lx and z of an image d units right of the
\* position, for a known curve and imagesPerSide > 0 (sin(segmentRads/2) # 0,
\* cos(segmentRads/2) # 1)
CurvePoint(options, d) ==
    LET curve == options["curve"].s
        n == options["imagesPerSide"].n
        t == Lateral(d, n)
    IN  CASE curve = "arc" ->
                LET radians == MulDiv(d, HalfSegment(options), Scale * n)
                    minCos == Cos(HalfSegment(options))
                IN  [lx |-> MulDiv(Sin(radians), Unit, Abs(Sin(HalfSegment(options)))),
                     z |-> MulDiv(Cos(radians) - minCos, Unit, Unit - minCos)]
          [] curve = "v" -> [lx |-> t, z |-> Unit - Abs(t)]
          [] curve = "cos" -> [lx |-> t, z |-> Cos(t)]
          [] curve = "cossqrt" ->
                LET root == Sgn(t) * Sqrt(Abs(t))
                IN  [lx |-> root, z |-> Cos(root)]
          [] curve = "peak" -> [lx |-> t, z |-> ((Unit - Abs(t)) * (Unit - Abs(t))) \div Unit]
          [] curve = "gallery" ->
                [lx |-> t,
                 z |-> IF Abs(d) >= Scale THEN 0
                       ELSE ((Scale - Abs(d)) * (Scale - Abs(d)) * Unit) \div (Scale * Scale)]

\* scale = o['minScale'] + min(1, z) * (1.-o['minScale'])
ScaleFactor(options, z) ==
    OnGrid(options["minScale"]) + MulDiv(Min(Unit, z), Unit - OnGrid(options["minScale"]), Unit)

\* the curves Renderer.getRenderInfo knows
KnownCurves == {"arc", "v", "cos", "cossqrt", "peak", "gallery"}

\* Renderer.getRenderInfo, the exception it raises for an index ("None": it
\* returns): an index that is not exactly the position goes through the curve,
\* which asserts on an unknown curve and divides by imagesPerSide; with a
\* scale > 0, `pixmap.width()` is an AttributeError for an image in STATE_READY
\* whose cache() is None
getRenderInfoRaises(w, index) ==
    IF index * Scale # w.pos /\ w.o["curve"].s \notin KnownCurves THEN "AssertionError"
    ELSE IF index * Scale # w.pos /\ w.o["imagesPerSide"].n = 0 THEN "ZeroDivisionError"
    ELSE IF /\ w.images[index + 1].state = STATE_READY
            /\ w.images[index + 1].cache.kind = "None"
            /\ ScaleFactor(w.o, IF index * Scale = w.pos THEN Unit
                                ELSE CurvePoint(w.o, index * Scale - w.pos).z) > 0
    THEN "AttributeError"
    ELSE "None"

\* int(x) for a number x of the grid: QRect takes integers
Trunc(x) == Sgn(x) * (Abs(x) \div Unit)

\* a QRect: left() is x, right() is x + w - 1, top() is y, bottom() is y + h - 1
QRect(x, y, width, height) == [x |-> x, y |-> y, w |-> width, h |-> height]

Right(rect) == rect.x + rect.w - 1

Bottom(rect) == rect.y + rect.h - 1

\* QRect.isValid(); QRect() is invalid
IsValid(rect) == rect.w > 0 /\ rect.h > 0

\* Renderer._availableWidth, in tenths of a pixel
AvailableWidth(options) == 10 * BufferWidth - (options["minScale"].n * options["size"].n) \div 100

\* the size of the pixmap image.cache(): createCache scales the image into
\* o['size'] (here an image of the same proportions) and adds the reflection
PixmapSize(image) ==
    LET size == image.cache.by[1]
    IN  [w |-> size.n,
         h |-> size.m + IF image.cache.by[2].n = 1
                        THEN (size.m * image.cache.by[3].n) \div 1000
                        ELSE 0]

\* Renderer.getRenderInfo from `scale = ...` on, for the point (lx, z) of the
\* image; rect and fullRect are in the renderer's coordinates
RenderInfo(w, index, point) ==
    LET image == w.images[index + 1]
        scale == ScaleFactor(w.o, point.z)
        ready == image.state = STATE_READY /\ image.cache.kind = "Built"
        pw == IF ready THEN PixmapSize(image).w ELSE w.o["size"].n
        ph == IF ready THEN PixmapSize(image).h ELSE w.o["size"].m
        width == scale * pw
        fullH == scale * ph
        height == IF ready /\ w.o["reflection"].n = 1
                  THEN (((fullH \div 10) * 1000) \div (1000 + w.o["reflectionFactor"].n)) * 10
                  ELSE fullH
        x == MulDiv(point.lx, AvailableWidth(w.o), 20) - width \div 2
        y == MulDiv((w.o["size"].m * Unit - height) \div 10, w.o["imageVAlign"].n, 100)
        rect == QRect(Trunc(x), Trunc(y), Trunc(width), Trunc(height))
        fullRect == QRect(Trunc(x), Trunc(y), Trunc(width), Trunc(fullH))
    IN  IF scale <= 0
        THEN [index |-> index, lx |-> point.lx, z |-> point.z, scale |-> scale,
              rect |-> QRect(0, 0, 0, 0), fullRect |-> QRect(0, 0, 0, 0)]
        ELSE [index |-> index, lx |-> point.lx, z |-> point.z, scale |-> scale,
              rect |-> rect, fullRect |-> fullRect]

\* getRenderInfo as it would be if the rounded center index bypassed the curve
getRenderInfo_RoundedCenter(w, index) ==
    RenderInfo(w, index,
               IF index = Max(0, Min(Round(w.pos), Len(w.images) - 1))
               THEN [lx |-> 0, z |-> Unit]
               ELSE CurvePoint(w.o, index * Scale - w.pos))

\* Renderer.getRenderInfo(index) when it returns: the image's lateral offset lx,
\* its depth z, its scale factor and its rects; an image whose index is the
\* position is not put on the curve
getRenderInfo(w, index) ==
    RenderInfo(w, index,
               IF index * Scale = w.pos THEN [lx |-> 0, z |-> Unit]
               ELSE CurvePoint(w.o, index * Scale - w.pos))

\* the loop of indexAt from the k-th index of the order on: covers is the set of
\* indices whose rect contains the point
RECURSIVE IndexAtLoop(_, _, _, _)
IndexAtLoop(w, order, k, covers) ==
    IF k > Len(order) THEN [w EXCEPT !.ret = None]
    ELSE IF getRenderInfoRaises(w, order[k]) # "None"
    THEN Raise(w, getRenderInfoRaises(w, order[k]))
    ELSE IF order[k] \in covers THEN [w EXCEPT !.ret = order[k]]
    ELSE IndexAtLoop(w, order, k + 1, covers)

\* ImageFlowWidget.indexAt: round(None) is a TypeError
indexAt(w, covers) ==
    IF Len(w.images) = 0 THEN [w EXCEPT !.ret = None]
    ELSE IF w.pos = None THEN Raise(w, "TypeError")
    ELSE IndexAtLoop(w, HitTestOrder(w.pos, Len(w.images), w.o["imagesPerSide"].n),
                     1, covers)

\* ImageFlowWidget.mousePressEvent
mousePressEvent(w, covers) ==
    LET w1 == indexAt(w, covers)
    IN  IF w1.raised # "None" THEN w1
        ELSE IF w1.ret # None
        THEN Emit(showPosition([w1 EXCEPT !.ret = None], w1.ret * Scale),
                  "imagePressed", w1.ret)
        ELSE w1

\* the loop of Renderer.renderImages over the load list, without a worker:
\* image.createCache(o) for every image of the visible range in STATE_INIT
LoadVisible(w) ==
    LET visible == RenderedIndices(w.pos, Len(w.images), w.o["imagesPerSide"].n)
    IN  [i \in DOMAIN w.images |->
            IF (i - 1) \in visible /\ w.images[i].state = STATE_INIT
            THEN CreateCache(w.images[i], w.o)
            ELSE w.images[i]]

\* loadList as it would be without the test for STATE_INIT
LoadList_All(w) ==
    LET c == CenterIndex(w.pos, Len(w.images))
        n == w.o["imagesPerSide"].n
    IN  centerRange(Max(0, c - ImagesLeft(w.pos, n)), c,
                    Min(c + ImagesRight(w.pos, n) + 1, Len(w.images)))

\* loadList of Renderer.renderImages: the indices of the visible range from the
\* center to the sides whose image is in STATE_INIT
LoadList(w) ==
    LET c == CenterIndex(w.pos, Len(w.images))
        n == w.o["imagesPerSide"].n
        inInit(i) == w.images[i + 1].state = STATE_INIT
    IN  SelectSeq(centerRange(Max(0, c - ImagesLeft(w.pos, n)), c,
                              Min(c + ImagesRight(w.pos, n) + 1, Len(w.images))),
                  inInit)

\* the first exception getRenderInfo raises for the indices renderImages lays out
RenderRaises(w) ==
    LET visible == RenderedIndices(w.pos, Len(w.images), w.o["imagesPerSide"].n)
        bad == {i \in visible : getRenderInfoRaises(w, i) # "None"}
    IN  IF bad = {} THEN "None"
        ELSE getRenderInfoRaises(w, CHOOSE i \in bad : TRUE)

\* what renderImage has drawn for info: the loading image, the missing image
\* or the cache, into the rect target; part is <<>> when the whole pixmap is the source,
\* else the fraction <<numerator, denominator>> of its width that is
PaintedImage(info, drawn, into, part) ==
    <<[index |-> info.index, lx |-> info.lx, z |-> info.z, scale |-> info.scale,
       drawn |-> drawn, target |-> into, part |-> part]>>

\* Renderer.renderImage(painter, info, nextRect=nextRect, left=left): nothing is
\* drawn for an invalid rect, the loading image for STATE_INIT, the missing
\* image for STATE_FAILED, else the image's cache, without the part that
\* nextRect will hide; nextRect is QRect(0, 0, 0, 0) for None
renderImage(w, info, nextRect, left) ==
    LET rect == info.fullRect
    IN  IF ~IsValid(info.rect) THEN <<>>
        ELSE IF w.images[info.index + 1].state = STATE_INIT
        THEN PaintedImage(info, "loading", info.rect, <<>>)
        ELSE IF w.images[info.index + 1].state = STATE_FAILED
        THEN PaintedImage(info, "missing", info.rect, <<>>)
        ELSE IF /\ IsValid(nextRect)
                /\ left
                /\ nextRect.y <= rect.y
                /\ Bottom(nextRect) >= Bottom(rect)
                /\ Right(nextRect) >= Right(rect)
        THEN PaintedImage(info, "cache",
                          [rect EXCEPT !.w = nextRect.x - rect.x + 1],
                          <<nextRect.x - rect.x, rect.w>>)
        ELSE IF /\ IsValid(nextRect)
                /\ ~left
                /\ nextRect.y <= rect.y
                /\ Bottom(nextRect) >= Bottom(rect)
                /\ nextRect.x <= rect.x
        THEN PaintedImage(info, "cache",
                          [rect EXCEPT !.x = Right(nextRect),
                                       !.w = Right(rect) - Right(nextRect) + 1],
                          <<Right(rect) - Right(nextRect), rect.w>>)
        ELSE PaintedImage(info, "cache", rect, <<>>)

\* the loops of Renderer.renderImages from the k-th index of the order on: a side
\* image is rendered with the fullRect of the next image towards the center
\* when both are in STATE_READY, the center image without
RECURSIVE RenderFrom(_, _, _, _)
RenderFrom(w, order, k, centerIndex) ==
    IF k > Len(order) THEN <<>>
    ELSE LET i == order[k]
             next == IF i < centerIndex THEN i + 1 ELSE i - 1
             both == /\ i # centerIndex
                     /\ w.images[i + 1].state = STATE_READY
                     /\ w.images[next + 1].state = STATE_READY
         IN  renderImage(w, getRenderInfo(w, i),
                         IF both THEN getRenderInfo(w, next).fullRect ELSE QRect(0, 0, 0, 0),
                         i < centerIndex)
                 \o RenderFrom(w, order, k + 1, centerIndex)

\* the order in which Renderer.renderImages draws: the left images from left to
\* center, the right images from right to center, the center image
PaintOrder(position, count, imagesPerSide) ==
    LET c == CenterIndex(position, count)
        first == Max(0, c - ImagesLeft(position, imagesPerSide))
        stop == Min(c + ImagesRight(position, imagesPerSide) + 1, count)
    IN  [k \in 1..(c - first) |-> first + k - 1]
            \o [k \in 1..(stop - c - 1) |-> stop - k]
            \o <<c>>

\* Renderer.renderImages once the images are loaded and no getRenderInfo raises
renderImages(w) ==
    RenderFrom(w, PaintOrder(w.pos, Len(w.images), w.o["imagesPerSide"].n), 1,
               CenterIndex(w.pos, Len(w.images)))

\* ImageFlowWidget.paintEvent -> Renderer.paint -> render -> renderImages: the
\* load list goes to the worker, or is loaded here when there is no worker;
\* dirty is cleared only when renderImages returns
paintEvent(w) ==
    IF ~w.dirty THEN w
    ELSE IF Len(w.images) = 0 THEN [w EXCEPT !.dirty = FALSE]
    ELSE IF w.pos = None THEN Raise(w, "TypeError")
    ELSE LET w1 == IF w.worker.present
                   THEN [w EXCEPT !.worker = Worker_load(@, LoadList(w))]
                   ELSE [w EXCEPT !.images = LoadVisible(w)]
         IN  IF RenderRaises(w1) # "None" THEN Raise(w1, RenderRaises(w1))
             ELSE [w1 EXCEPT !.dirty = FALSE, !.painted = renderImages(w1)]

\* setOptions as it would be if it assigned nothing
setOptions_KeepsOld(w, options) == w

\* the end of setOptions when a key of OPTIONS_REBUILD_CACHE has changed, after
\* worker.reset(): every image's _clearCache(), and triggerRender
ClearCaches(w) ==
    triggerRender([w EXCEPT !.images = [i \in DOMAIN w.images |-> ClearCache(w.images[i])]])

\* ImageFlowWidget.setOptions.  With a worker, a change of a key of
\* OPTIONS_REBUILD_CACHE takes the UI thread into Worker.reset, up to
\* `self._emptyEvent = threading.Event()`; ResetLoad and ResetReturns go on.
setOptions(w, options) ==
    LET r == SetOptionsLoop(options, 1, [o |-> w.o, changed |-> {}, raised |-> "None"])
        w1 == [w EXCEPT !.o = r.o]
    IN  IF r.raised # "None" THEN Raise(w1, r.raised)
        ELSE IF r.changed \cap OPTIONS_REBUILD_CACHE # {}
        THEN IF w1.worker.present
             THEN [w1 EXCEPT !.worker.emptyEvent = "Clear", !.ui = "reset_load"]
             ELSE ClearCaches(w1)
        ELSE IF r.changed # {} THEN triggerRender(w1) ELSE w1

\* ImageFlowWidget.setOption
setOption(w, key, value) == setOptions(w, <<<<key, value>>>>)

\* ImageFlowWidget.closeEvent, for an event that is accepted
closeEvent(w) ==
    IF w.worker.present THEN [w EXCEPT !.worker = Worker_shutdown(@)] ELSE w

----------------------------------------------------------------------------
(* Handlers as actions *)

\* what a handler leaves behind for the outside
CallRecord(op, arg, w) ==
    [op |-> op, arg |-> arg, raised |-> w.raised, signals |-> w.signals,
     update |-> w.update, ret |-> w.ret, painted |-> w.painted]

\* the handler's effects become the next state; call records the handler.  A
\* constructor that raised has left no widget whose methods could be called,
\* and no handler runs while the UI thread is inside another one.
Commit(op, arg, w) ==
    /\ ~(call.op = "__init__" /\ call.raised # "None")
    /\ ui = "idle"
    /\ images' = w.images
    /\ pos' = w.pos
    /\ o' = w.o
    /\ timerActive' = w.timerActive
    /\ target' = w.target
    /\ v' = w.v
    /\ dirty' = w.dirty
    /\ worker' = w.worker
    /\ ui' = w.ui
    /\ call' = CallRecord(op, arg, w)
    /\ UNCHANGED paths

DoSetImages(newImages) ==
    Commit("setImages", <<Len(newImages)>>,
           setImages(Cur, newImages, paths, ImagesPerSide))

DoSetPosition(position) ==
    Commit("setPosition", <<position>>, setPosition(Cur, position))

DoShowPosition(position) ==
    Commit("showPosition", <<position>>, showPosition(Cur, position))

DoShowNext == Commit("showNext", <<>>, showNext(Cur))

DoShowPrevious == Commit("showPrevious", <<>>, showPrevious(Cur))

DoKeyPressEvent(key) == Commit("keyPressEvent", <<key>>, keyPressEvent(Cur, key))

DoWheelEvent(delta) == Commit("wheelEvent", <<delta>>, wheelEvent(Cur, delta))

DoMousePressEvent(covers) ==
    Commit("mousePressEvent", <<>>, mousePressEvent(Cur, covers))

DoIndexAt(covers) == Commit("indexAt", <<>>, indexAt(Cur, covers))

DoSetOptions(options) == Commit("setOptions", <<>>, setOptions(Cur, options))

DoPaintEvent == Commit("paintEvent", <<>>, paintEvent(Cur))

DoSetOption(key, value) == Commit("setOption", <<key, value>>, setOption(Cur, key, value))

DoCloseEvent == Commit("closeEvent", <<>>, closeEvent(Cur))

\* Renderer._handleTimer: the worker's timer fires
HandleTimer ==
    /\ worker.timer
    /\ Commit("_handleTimer", <<>>, triggerRender(Cur))

\* Worker.reset, second statement: self.load([])
ResetLoad ==
    /\ ui = "reset_load"
    /\ worker' = Worker_load(worker, <<>>)
    /\ ui' = "reset_wait"
    /\ UNCHANGED <<paths, images, pos, o, timerActive, target, v, dirty, call>>

\* Worker.reset from the return of self._emptyEvent.wait() on, and the rest of
\* setOptions: _emptyEvent = None, every image's _clearCache(), triggerRender
ResetReturns ==
    /\ ui = "reset_wait"
    /\ worker.emptyEvent = "Set"
    /\ LET w == ClearCaches([Cur EXCEPT !.worker.emptyEvent = "None", !.ui = "idle"])
       IN  /\ images' = w.images
           /\ dirty' = w.dirty
           /\ worker' = w.worker
           /\ ui' = w.ui
           /\ call' = CallRecord("setOptions", <<>>, w)
    /\ UNCHANGED <<paths, pos, o, timerActive, target, v>>

\* Worker.run at the head of the loop: `while self._running`, `loadList =
\* self._loadList`; for an empty list timer.stop(); else timer.start(), which
\* Qt carries out or not outside the timer's thread, and the first image of the list:
\* when it is in STATE_INIT the thread enters createCache, which loads the
\* image and reads the options
WorkerLoop ==
    /\ worker.pc = "loop"
    /\ IF ~worker.running
       THEN worker' = [worker EXCEPT !.pc = "done"] /\ UNCHANGED images
       ELSE IF worker.loadList = <<>>
       THEN worker' = [worker EXCEPT !.timer = FALSE, !.pc = "check"] /\ UNCHANGED images
       ELSE LET started == worker.timer \/ worker.timerStarts
                i == worker.loadList[1] + 1
            IN  IF images[i].state = STATE_INIT
                    THEN /\ worker' = [worker EXCEPT
                                          !.timer = started, !.pc = "assign",
                                          !.job = [index |-> i,
                                                   cache |-> CreateCache(images[i], o).cache]]
                         /\ images' = [images EXCEPT ![i].loaded = TRUE,
                                                      ![i].builds = @ + 1]
                    ELSE worker' = [worker EXCEPT !.timer = started] /\ UNCHANGED images
    /\ UNCHANGED <<paths, pos, o, timerActive, target, v, dirty, ui, call>>

\* Image.createCache on the worker thread: `self._cache = ...`, the QImage that
\* is still to be painted or, for a file that does not decode, the null image
WorkerAssign ==
    /\ worker.pc = "assign"
    /\ images' = [images EXCEPT ![worker.job.index].cache =
                      IF worker.job.cache.kind = "Built"
                      THEN [worker.job.cache EXCEPT !.kind = "Partial"]
                      ELSE worker.job.cache]
    /\ worker' = [worker EXCEPT !.pc = "publish"]
    /\ UNCHANGED <<paths, pos, o, timerActive, target, v, dirty, ui, call>>

\* Image.createCache on the worker thread, to its end: the painting and
\* `self.state = STATE_READY` (or STATE_FAILED).  When _clearCache has set
\* _cache to None since the assignment, the painting raises (QPainter(None),
\* drawImage from None) and ends the thread, or was past its reads of _cache
\* and the state is set.
WorkerPublish ==
    /\ worker.pc = "publish"
    /\ LET i == worker.job.index
           state == IF worker.job.cache.kind = "Built" THEN STATE_READY ELSE STATE_FAILED
       IN  IF images[i].cache.kind # "None"
           THEN /\ images' = [images EXCEPT ![i].cache = worker.job.cache, ![i].state = state]
                /\ worker' = [worker EXCEPT !.pc = "loop", !.job = NoJob]
           ELSE \/ /\ images' = [images EXCEPT ![i].state = state]
                   /\ worker' = [worker EXCEPT !.pc = "loop", !.job = NoJob]
                \/ /\ state = STATE_READY
                   /\ worker' = [worker EXCEPT !.pc = "dead", !.job = NoJob]
                   /\ UNCHANGED images
    /\ UNCHANGED <<paths, pos, o, timerActive, target, v, dirty, ui, call>>

\* Worker.run, idle branch: `if self._emptyEvent is not None`
WorkerCheck ==
    /\ worker.pc = "check"
    /\ worker' = [worker EXCEPT !.pc = IF worker.emptyEvent # "None" THEN "set" ELSE "wait"]
    /\ UNCHANGED <<paths, images, pos, o, timerActive, target, v, dirty, ui, call>>

\* Worker.run, idle branch: `self._emptyEvent.set()` reads the attribute again;
\* None has no set(), the AttributeError ends the thread
WorkerSet ==
    /\ worker.pc = "set"
    /\ worker' = IF worker.emptyEvent = "None" THEN [worker EXCEPT !.pc = "dead"]
                 ELSE [worker EXCEPT !.emptyEvent = "Set", !.pc = "wait"]
    /\ UNCHANGED <<paths, images, pos, o, timerActive, target, v, dirty, ui, call>>

\* Worker.run, idle branch: self._newEvent.wait() returns, self._newEvent.clear()
WorkerWait ==
    /\ worker.pc = "wait"
    /\ worker.newEvent
    /\ worker' = [worker EXCEPT !.newEvent = FALSE, !.pc = "loop"]
    /\ UNCHANGED <<paths, images, pos, o, timerActive, target, v, dirty, ui, call>>

\* a step of the worker thread
WorkerStep ==
    WorkerLoop \/ WorkerAssign \/ WorkerPublish \/ WorkerCheck \/ WorkerSet \/ WorkerWait

\* a step of the worker thread when no reset is under way: _emptyEvent is None
\* and the thread never is at `self._emptyEvent.set()`
WorkerLoads ==
    WorkerLoop \/ WorkerAssign \/ WorkerPublish \/ WorkerCheck \/ WorkerWait

\* showPosition when no animation is running: the animation it starts runs to
\* its target
DoShowPositionAtRest(position) == ~timerActive /\ DoShowPosition(position)

\* a direct call of widget.animator.start
DoAnimatorStart(position) ==
    Commit("Animator.start", <<position>>, Animator_start(Cur, position))

\* a direct call of widget.animator.stop
DoAnimatorStop == Commit("Animator.stop", <<>>, Animator_stop(Cur))

\* the animator's timer fires
Tick ==
    /\ timerActive
    /\ Commit("Animator.update", <<>>, Animator_update(Cur))

----------------------------------------------------------------------------
(* Inputs *)

\* integer indices as positions, one below and one above every valid index
PositionArgs == {i * Scale : i \in (0 - 1)..MaxCount}

\* lists of fresh images whose files all decode
OkImageLists == {[i \in 1..n |-> NewImage(TRUE)] : n \in 0..MaxCount}

\* lists of fresh images, each file decoding or not
ImageLists ==
    UNION {{[i \in 1..n |-> NewImage(ok[i])] : ok \in [1..n -> BOOLEAN]} : n \in 0..MaxCount}

Keys == {"Key_Left", "Key_Right", "Key_Up"}

\* QWheelEvent.delta(): one notch is 120
WheelDeltas == {0 - 120, 120, 60, 180}

\* for a point, the set of indices whose rect contains it
CoverSets == SUBSET (0..(MaxCount - 1))

\* the option maps of the position model: imagesPerSide, and a map that is
\* rejected at its second key
PositionOptionMaps ==
    {<<<<"imagesPerSide", IntV(k)>>>> : k \in 0..1}
        \cup {<<<<"imagesPerSide", IntV(1)>>, <<"nosuchoption", IntV(1)>>>>}

\* the image lists of the layout model: MaxCount images whose files decode, or
\* all but the second
LayoutImageLists ==
    {[i \in 1..MaxCount |-> NewImage(TRUE)], [i \in 1..MaxCount |-> NewImage(i # 2)]}

\* the option maps of the layout model: every curve, and imagesPerSide
LayoutOptionMaps ==
    {<<<<"curve", StrV(c)>>>> : c \in KnownCurves}
        \cup {<<<<"imagesPerSide", IntV(k)>>>> : k \in 0..MaxPerSide}

\* the (key, value) pairs of the round-trip model: for every key of OPTIONS
\* values of its type, among them the default, an int for a float, a bool for
\* an int and numbers that are equal across types; and values setOptions rejects
RoundTripPairs ==
    {<<"size", QSizeV(100, 100)>>, <<"size", QSizeV(300, 300)>>,
     <<"rotate", BoolV(FALSE)>>, <<"rotate", BoolV(TRUE)>>,
     <<"imagesPerSide", IntV(1)>>, <<"imagesPerSide", BoolV(TRUE)>>,
     <<"background", QColorV("white")>>, <<"background", QColorV("black")>>,
     <<"curve", StrV("v")>>, <<"curve", StrV("arc")>>,
     <<"segmentRads", FloatV(3142)>>, <<"segmentRads", IntV(3)>>,
     <<"minScale", FloatV(1000)>>, <<"minScale", IntV(1)>>,
     <<"vAlign", FloatV(0)>>, <<"vAlign", IntV(0)>>,
     <<"imageVAlign", FloatV(1000)>>, <<"imageVAlign", FloatV(800)>>,
     <<"reflection", BoolV(TRUE)>>, <<"reflection", BoolV(FALSE)>>,
     <<"reflectionFactor", FloatV(500)>>, <<"reflectionFactor", FloatV(600)>>,
     <<"reflectionAlpha", FloatV(0)>>, <<"reflectionAlpha", BoolV(FALSE)>>,
     <<"fadeOut", BoolV(TRUE)>>, <<"fadeOut", BoolV(FALSE)>>,
     <<"fadeStart", FloatV(1000)>>, <<"fadeStart", FloatV(400)>>,
     <<"rotate", IntV(1)>>, <<"background", GlobalColorV("black")>>,
     <<"nosuchoption", IntV(1)>>}

\* the keys whose value is not the default's
Changed(options) == {key \in OptionKeys : options[key] # OptionDefault[key]}

\* the option maps of the worker model: two sizes, which the caches depend on,
\* and imagesPerSide, which they do not depend on
WorkerOptionMaps ==
    {<<<<"size", QSizeV(100, 100)>>>>, <<<<"size", QSizeV(300, 300)>>>>,
     <<<<"imagesPerSide", IntV(1)>>>>}

\* the image lists of the worker model
WorkerImageLists ==
    {[i \in 1..MaxWorkerCount |-> NewImage(ok[i])] : ok \in [1..MaxWorkerCount -> BOOLEAN]}

\* the (key, value) pairs of the option model: values that are accepted, a
\* value of the wrong type and a key that is not an option
OptionPairs ==
    {<<"size", QSizeV(100, 100)>>, <<"size", IntV(100)>>,
     <<"reflection", BoolV(TRUE)>>, <<"reflection", BoolV(FALSE)>>,
     <<"curve", StrV("v")>>, <<"nosuchoption", IntV(1)>>}

\* a dict has every key once
DistinctKeys(options) ==
    \A i, j \in DOMAIN options : i # j => options[i][1] # options[j][1]

\* the dicts handed to setOptions, as the sequence options.items() goes through
OptionMaps ==
    {options \in UNION {[1..n -> OptionPairs] : n \in 0..MaxOptLen} : DistinctKeys(options)}

\* `paths` is unbound when the module is imported; when it runs as a script it
\* is the list of image files of the folder, empty or not
PathsLens == {Unbound} \cup 0..1

----------------------------------------------------------------------------
(* The widget after construction: ImageFlowWidget.__init__ ends with       *)
(* self.clear(), which is setImages([])                                    *)

Constructed(pathsLen) ==
    setImages([images |-> <<>>, pos |-> 0, o |-> OptionDefault, timerActive |-> FALSE,
               target |-> None, v |-> 0, dirty |-> TRUE, worker |-> NoWorker,
               ui |-> "idle",
               signals |-> <<>>, update |-> FALSE, raised |-> "None", ret |-> None,
               painted |-> <<>>],
              <<>>, pathsLen, OptionDefault["imagesPerSide"].n)

\* the variables hold the state w, reached by the handler op
StateIs(pathsLen, op, w) ==
    /\ paths = pathsLen
    /\ images = w.images
    /\ pos = w.pos
    /\ o = w.o
    /\ timerActive = w.timerActive
    /\ target = w.target
    /\ v = w.v
    /\ dirty = w.dirty
    /\ worker = w.worker
    /\ ui = w.ui
    /\ call = CallRecord(op, <<>>, w)

Init == \E pathsLen \in PathsLens : StateIs(pathsLen, "__init__", Constructed(pathsLen))

\* the widget after construction with loadAsync True or False: the worker is
\* created and started before self.clear()
InitAsync ==
    \E loadAsync, timerStarts \in BOOLEAN :
        StateIs(1, "__init__",
                [Constructed(1) EXCEPT
                    !.worker = IF loadAsync THEN NewWorker(timerStarts) ELSE NoWorker])

\* the position model: the widget's calls and events that move the position,
\* and the animator's timer
Next ==
    \/ \E newImages \in OkImageLists : DoSetImages(newImages)
    \/ \E position \in PositionArgs : DoSetPosition(position)
    \/ \E position \in PositionArgs : DoShowPosition(position)
    \/ DoShowNext
    \/ DoShowPrevious
    \/ \E key \in Keys : DoKeyPressEvent(key)
    \/ \E delta \in WheelDeltas : DoWheelEvent(delta)
    \/ \E options \in PositionOptionMaps : DoSetOptions(options)
    \/ Tick

Spec == Init /\ [][Next]_vars

\* the position model with direct calls of Animator.stop
NextStop ==
    \/ \E newImages \in OkImageLists : DoSetImages(newImages)
    \/ \E position \in PositionArgs : DoSetPosition(position)
    \/ \E position \in PositionArgs : DoShowPosition(position)
    \/ DoShowNext
    \/ DoShowPrevious
    \/ DoAnimatorStop
    \/ Tick

SpecStop == Init /\ [][NextStop]_vars

\* the animator alone: direct calls of Animator.start and the timer, which
\* fires as long as it is active
NextAnim ==
    \/ \E newImages \in OkImageLists : DoSetImages(newImages)
    \/ \E position \in PositionArgs : DoAnimatorStart(position)
    \/ Tick

SpecAnim == Init /\ [][NextAnim]_vars

\* the animator under a timer that fires as long as it is active: the longest
\* image list and the indices of its images as targets
NextAnimFair ==
    \/ DoSetImages([i \in 1..MaxCount |-> NewImage(TRUE)])
    \/ \E index \in 0..(MaxCount - 1) : DoAnimatorStart(index * Scale)
    \/ Tick

SpecAnimFair == Init /\ [][NextAnimFair]_vars /\ WF_vars(Tick)

\* hit-testing at the positions an animation goes through
NextHit ==
    \/ \E newImages \in OkImageLists : DoSetImages(newImages)
    \/ \E options \in PositionOptionMaps : DoSetOptions(options)
    \/ \E position \in PositionArgs : DoShowPosition(position)
    \/ \E covers \in CoverSets : DoIndexAt(covers)
    \/ \E covers \in CoverSets : DoMousePressEvent(covers)
    \/ Tick

SpecHit == Init /\ [][NextHit]_vars

\* the layout: what is painted and hit-tested, for every curve, at the
\* positions an animation goes through (loadAsync=False)
NextLayout ==
    \/ \E newImages \in LayoutImageLists : DoSetImages(newImages)
    \/ \E options \in LayoutOptionMaps : DoSetOptions(options)
    \/ \E position \in PositionArgs : DoShowPositionAtRest(position)
    \/ \E covers \in {{}, 0..(MaxCount - 1)} : DoIndexAt(covers)
    \/ DoPaintEvent
    \/ Tick

SpecLayout == Init /\ [][NextLayout]_vars

\* setOption for every key of OPTIONS, on a widget without a worker
NextRoundTrip ==
    \E pair \in RoundTripPairs :
        /\ DoSetOption(pair[1], pair[2])
        /\ Cardinality(Changed(o')) <= MaxChanged

SpecRoundTrip == Init /\ [][NextRoundTrip]_vars

\* the widget and its worker thread: the UI thread's handlers, its steps inside
\* Worker.reset and the worker thread's steps, interleaved; also the widget
\* without a worker.  The images are set once: the worker's list holds indices
\* of self.images.
NextWorker ==
    \/ images = <<>> /\ \E newImages \in WorkerImageLists : DoSetImages(newImages)
    \/ \E options \in WorkerOptionMaps : DoSetOptions(options)
    \/ DoPaintEvent
    \/ DoCloseEvent
    \/ HandleTimer
    \/ ResetLoad
    \/ ResetReturns
    \/ WorkerStep

SpecWorker == InitAsync /\ [][NextWorker]_vars

\* the widget and its worker thread under fair scheduling: the worker thread
\* takes a step whenever it has one to take, and so does the UI thread inside
\* Worker.reset; the UI thread's handlers run when events arrive
SpecWorkerFair ==
    /\ InitAsync
    /\ [][NextWorker]_vars
    /\ WF_vars(WorkerStep)
    /\ WF_vars(ResetLoad)
    /\ WF_vars(ResetReturns)

\* loading at a position and with options that do not change: the images are
\* set once, the widget is painted, the worker's timer fires and the worker
\* thread runs
NextLoad ==
    \/ images = <<>> /\ \E newImages \in WorkerImageLists : DoSetImages(newImages)
    \/ DoPaintEvent
    \/ HandleTimer
    \/ WorkerLoads

\* a repaint is due: triggerRender has set dirty and called update(), and the
\* UI thread is in its event loop, so that DoPaintEvent can take place
RepaintDue == dirty /\ ui = "idle" /\ ~(call.op = "__init__" /\ call.raised # "None")

\* ... under fair scheduling: the worker thread takes a step whenever it has
\* one to take, an active timer fires, and a repaint that is due takes place.
\* The last is weak fairness of the paint that renders, written with the
\* condition under which that paint is enabled and which it ends.
SpecLoadFair ==
    /\ InitAsync
    /\ [][NextLoad]_vars
    /\ WF_vars(WorkerLoads)
    /\ WF_vars(HandleTimer)
    /\ []<>~RepaintDue

\* the options and the image caches, for a widget that loads its images
\* itself when it paints (loadAsync=False)
NextOptions ==
    \/ \E newImages \in ImageLists : DoSetImages(newImages)
    \/ \E options \in OptionMaps : DoSetOptions(options)
    \/ DoPaintEvent

SpecOptions == Init /\ [][NextOptions]_vars

----------------------------------------------------------------------------
(* Properties *)

\* the state after the step, as the record the methods work on
CurNext ==
    [images |-> images', pos |-> pos', o |-> o', timerActive |-> timerActive',
     target |-> target', v |-> v', dirty |-> dirty', worker |-> worker', ui |-> ui',
     signals |-> <<>>, update |-> FALSE, raised |-> "None", ret |-> None,
     painted |-> <<>>]

\* C1: whenever there are images, the focus position is set and lies between 0
\* and count - 1.  (Spec)
C1_PositionInRange ==
    Count > 0 => (pos # None /\ 0 <= pos /\ pos <= (Count - 1) * Scale)

\* C1 where setImages takes its first branch: with `paths` bound to a list that
\* is not empty the position is in range.  (Spec)
C1_WithPaths == paths > 0 => C1_PositionInRange

\* a pair setOptions has to reject: an unknown key or a value of the wrong type
InvalidPair(pair) ==
    \/ pair[1] \notin OptionKeys
    \/ ~TypeAccepted(pair[2], OptionType[pair[1]])

\* C2: setOptions is all-or-nothing: a map with an unknown key or a value of
\* the wrong type fails with a KeyError or TypeError and changes no option and
\* no image cache; any other map is accepted.  (SpecOptions)
C2_AllOrNothing ==
    [][\A options \in OptionMaps : DoSetOptions(options) =>
          IF \E i \in DOMAIN options : InvalidPair(options[i])
          THEN /\ call'.raised \in {"KeyError", "TypeError"}
               /\ o' = o
               /\ images' = images
          ELSE call'.raised = "None"]_vars

\* C3: a setOptions call resets the image caches exactly when it changes the
\* value of size, background, reflection or reflectionFactor: after such a call
\* every image is in STATE_INIT without a cache, and after any other call the
\* images are as they were.  (SpecOptions)
C3_CacheReset ==
    [][\A options \in OptionMaps : DoSetOptions(options) =>
          IF \E key \in OPTIONS_REBUILD_CACHE : o'[key] # o[key]
          THEN \A i \in DOMAIN images' :
                   images'[i].state = STATE_INIT /\ images'[i].cache = NoCache
          ELSE images' = images]_vars

\* C3 for the calls that return: they reset the caches exactly when they change
\* one of the four options.  (SpecOptions)
C3_WhenReturns ==
    [][\A options \in OptionMaps : (DoSetOptions(options) /\ call'.raised = "None") =>
          IF \E key \in OPTIONS_REBUILD_CACHE : o'[key] # o[key]
          THEN \A i \in DOMAIN images' :
                   images'[i].state = STATE_INIT /\ images'[i].cache = NoCache
          ELSE images' = images]_vars

C5_VelocityBounds ==
    [][(Tick /\ pos # None /\ pos # target) =>
          /\ v' >= 0
          /\ v' * v' <= 2 * Accel * Abs(target - pos)
          /\ v' <= v + Accel
          /\ Abs(pos' - pos) = Min(v', Abs(target - pos))]_vars

\* a tick has moved with more than one acceleration step
C5_Witness ==
    /\ call.op = "Animator.update"
    /\ timerActive
    /\ pos # None
    /\ pos # target
    /\ v > Accel

\* Animator.start(position) reverses the direction of the running animation
Reversal(position) ==
    /\ timerActive
    /\ pos # None
    /\ target # None
    /\ (target - pos) * (Clamp(position, Count) - pos) < 0

\* what Animator.start does to target, velocity and timer
StartResetsOrKeeps(position) ==
    (pos # None \/ ~timerActive) =>
        /\ target' = Clamp(position, Count)
        /\ timerActive'
        /\ v' = IF ~timerActive \/ Reversal(position) THEN 0 ELSE v

\* the velocity of a tick that follows the step
VelocityOfNextTick == Animator_update(CurNext).v

\* C6: Animator.start sets the velocity to 0 when no animation is active or when
\* the new target is on the other side of the position than the old one, and
\* otherwise keeps it and only replaces the target; the tick after a reversal
\* moves with at most one acceleration step, and with exactly one unless the new
\* target is closer than half a step.  (SpecAnim)
C6_StartVelocity ==
    [][\A position \in PositionArgs : DoAnimatorStart(position) =>
          /\ StartResetsOrKeeps(position)
          /\ Reversal(position) =>
                /\ VelocityOfNextTick > 0
                /\ VelocityOfNextTick <= Accel
                /\ (2 * Abs(target' - pos') >= Accel => VelocityOfNextTick = Accel)]_vars

\* C6 as it is stated: the tick after a reversal moves with exactly one
\* acceleration step.  (SpecAnim)
C6_FirstTickOneStep ==
    [][\A position \in PositionArgs : DoAnimatorStart(position) =>
          /\ StartResetsOrKeeps(position)
          /\ Reversal(position) => VelocityOfNextTick = Accel]_vars

\* Animator.start has reset the velocity of an animation in flight
C6_Witness ==
    /\ call.op = "Animator.start"
    /\ timerActive
    /\ v = 0
    /\ pos # None
    /\ pos % Scale # 0

\* C7: setPosition(p) stops the animation and, with images, sets the position
\* to p clamped to [0, count - 1]; it emits indexChanged and asks for a repaint
\* if the clamped value differs from the position before, and does neither if
\* it does not.  (SpecStop)
C7_SetPosition ==
    [][\A p \in PositionArgs : DoSetPosition(p) =>
          /\ ~timerActive'
          /\ target' = None
          /\ Count > 0 =>
                LET clamped == IF p < 0 THEN 0
                               ELSE IF p > (Count - 1) * Scale THEN (Count - 1) * Scale
                               ELSE p
                IN  /\ pos' = clamped
                    /\ IF clamped # pos
                       THEN /\ call'.signals = <<<<"indexChanged", clamped>>>>
                            /\ call'.update
                            /\ dirty'
                       ELSE /\ call'.signals = <<>>
                            /\ ~call'.update
                            /\ dirty' = dirty]_vars

\* setPosition has clamped an index past the end and announced the change,
\* after an animation had moved
C7_Witness ==
    /\ call.op = "setPosition"
    /\ Count > 1
    /\ call.arg = <<Count * Scale>>
    /\ pos = (Count - 1) * Scale
    /\ call.signals = <<<<"indexChanged", pos>>>>
    /\ v > 0

\* at rest, with images, at a position between two indices
FractionalAtRest ==
    /\ ~timerActive
    /\ target = None
    /\ Count > 0
    /\ pos # None
    /\ pos % Scale # 0

\* C8: the position comes to rest between two indices only by a call of
\* Animator.stop during an animation; setImages, setPosition, showPosition,
\* showNext, showPrevious and the ticks never leave it there.  (SpecStop)
C8_FractionalOnlyByStop ==
    [][(FractionalAtRest' /\ ~FractionalAtRest) =>
          (call'.op = "Animator.stop" /\ timerActive)]_vars

\* C8 as it is stated, for a position that is set: at rest, with images, the
\* position is an index.  (SpecStop)
C8_IntegerAtRest == ~FractionalAtRest

\* an animation over more than one index has come to rest at its target
C8_Witness ==
    /\ call.op = "Animator.update"
    /\ ~timerActive
    /\ target = None
    /\ Count > 1
    /\ pos # None
    /\ pos % Scale = 0
    /\ v > Accel

\* the integers of [max(0, c - L), min(count - 1, c + R)] for c the rounded
\* position clamped to [0, count - 1], L = imagesPerSide, one more when the
\* position is below its rounding, R = imagesPerSide, one more when it is above
ClaimedRange(position, count, imagesPerSide) ==
    LET rounded == Round(position)
        c == IF rounded < 0 THEN 0 ELSE IF rounded > count - 1 THEN count - 1 ELSE rounded
        L == imagesPerSide + (IF position < rounded * Scale THEN 1 ELSE 0)
        R == imagesPerSide + (IF position > rounded * Scale THEN 1 ELSE 0)
    IN  {i \in 0..(count - 1) : c - L <= i /\ i <= c + R}

\* the indices indexAt goes through, as a set
HitTested(position, count, imagesPerSide) ==
    LET order == HitTestOrder(position, count, imagesPerSide)
    IN  {order[k] : k \in DOMAIN order}

NearestCovering(covers) ==
    LET c == CenterIndex(pos, Count)
        hit == covers \cap ClaimedRange(pos, Count, ImagesPerSide)
    IN  {i \in hit : \A j \in hit : Abs(i - c) <= Abs(j - c)}

\* C10: with a position that is set, indexAt returns an index of the visible
\* range whose rect contains the point and that no other such index precedes in
\* the order from the center outwards, the center if its rect contains the
\* point, and None when no visible rect contains the point or there are no
\* images.  (SpecHit)
C10_IndexAt ==
    [][\A covers \in CoverSets : (DoIndexAt(covers) /\ (Count = 0 \/ pos # None)) =>
          /\ call'.raised = "None"
          /\ IF Count = 0 \/ NearestCovering(covers) = {}
             THEN call'.ret = None
             ELSE call'.ret \in NearestCovering(covers)]_vars

\* C10 for the calls that return: the result is a nearest covering index of the
\* visible range, the center when its rect contains the point, and None when
\* there is none.  (SpecHit)
C10_WhenReturns ==
    [][\A covers \in CoverSets : (DoIndexAt(covers) /\ call'.raised = "None") =>
          IF Count = 0 \/ NearestCovering(covers) = {}
          THEN call'.ret = None
          ELSE /\ call'.ret \in NearestCovering(covers)
               /\ CenterIndex(pos, Count) \in covers =>
                      call'.ret = CenterIndex(pos, Count)]_vars

\* C18: a tick that finds the position equal to the target stops the timer,
\* clears the target, leaves the position and emits indexChanged(target) and
\* nothing else; a tick that finds them different emits nothing, and when it
\* moves (onto the target too) the timer stays active with the target kept
C18_SettledNotification ==
    [][Tick =>
          IF pos = target
          THEN /\ ~timerActive'
               /\ target' = None
               /\ pos' = pos
               /\ call'.signals = <<<<"indexChanged", target>>>>
          ELSE /\ call'.signals = <<>>
               /\ call'.raised = "None" =>
                      /\ timerActive'
                      /\ target' = target
                      /\ pos' # pos]_vars

\* an animation has arrived, and the tick after the arrival has emitted
\* indexChanged with the index it had as target
C18_Witness ==
    /\ call.op = "Animator.update"
    /\ call.signals = <<<<"indexChanged", pos>>>>
    /\ call.raised = "None"
    /\ target = None
    /\ ~timerActive
    /\ pos # None
    /\ pos % Scale = 0
    /\ v >= Accel

----------------------------------------------------------------------------
(* Layout *)

\* the last handler was a paint that rendered the images and returned
Painted == call.op = "paintEvent" /\ call.raised = "None" /\ call.painted # <<>>

PaintedEntries == {call.painted[k] : k \in DOMAIN call.painted}

PaintedInOrder ==
    LET c == CenterIndex(pos, Count)
    IN  \A j, k \in DOMAIN call.painted :
            j < k =>
                LET a == call.painted[j].index
                    b == call.painted[k].index
                IN  /\ a # c
                    /\ (a < c /\ b < c) => a < b
                    /\ (a > c /\ b > c) => a > b

\* the painted side image e and the next image towards the center are in
\* STATE_READY, and the neighbour's fullRect N contains the image's fullRect R
\* vertically and extends at least to the inner edge of R
Hidden(e, R, N) ==
    LET c == CenterIndex(pos, Count)
        next == IF e.index < c THEN e.index + 1 ELSE e.index - 1
    IN  /\ e.index # c
        /\ images[e.index + 1].state = STATE_READY
        /\ images[next + 1].state = STATE_READY
        /\ IsValid(N)
        /\ N.y <= R.y
        /\ Bottom(N) >= Bottom(R)
        /\ IF e.index < c THEN Right(N) >= Right(R) ELSE N.x <= R.x

\* the width of the part of R that lies outside the near edge of N: between 0
\* (R is covered entirely) and the width of R (N begins beyond R)
Uncovered(e, R, N) ==
    IF e.index < CenterIndex(pos, Count)
    THEN Max(0, Min(N.x - R.x, R.w))
    ELSE Max(0, Min(Right(R) - Right(N), R.w))

\* C16: the side images are painted from the outermost inward on each side and
\* the center image last.  A side image is clipped exactly when it and the next
\* image towards the center are in STATE_READY and the neighbour's fullRect
\* contains the image's fullRect vertically and extends at least to the image's
\* inner edge: then only the slice of the image outside the neighbour's near
\* edge is drawn, from the proportion of the pixmap's width that the uncovered
\* width is of the image's width.  Else the image is drawn whole.
C16_PaintOrderAndClipping ==
    Painted =>
        /\ PaintedInOrder
        /\ \A e \in PaintedEntries :
               LET c == CenterIndex(pos, Count)
                   next == IF e.index < c THEN e.index + 1 ELSE e.index - 1
                   R == getRenderInfo(Cur, e.index).fullRect
                   N == getRenderInfo(Cur, next).fullRect
               IN  IF Hidden(e, R, N)
                   THEN /\ e.part = <<Uncovered(e, R, N), R.w>>
                        /\ e.target.x >= R.x
                        /\ Right(e.target) <= Right(R)
                   ELSE /\ e.part = <<>>
                        /\ e.drawn = "cache" => e.target = R

\* C16, what renderImage computes: the order is as stated; the clipped slice
\* runs from the image's outer edge to the neighbour's near edge and the
\* fraction is the signed distance between these two edges over the image's
\* width, negative for an image that is covered entirely and above 1 for a
\* neighbour that begins beyond the image
C16_AsComputed ==
    Painted =>
        /\ PaintedInOrder
        /\ \A e \in PaintedEntries :
               LET c == CenterIndex(pos, Count)
                   left == e.index < c
                   next == IF left THEN e.index + 1 ELSE e.index - 1
                   R == getRenderInfo(Cur, e.index).fullRect
                   N == getRenderInfo(Cur, next).fullRect
               IN  IF Hidden(e, R, N) /\ left
                   THEN /\ e.part = <<N.x - R.x, R.w>>
                        /\ e.target.x = R.x
                        /\ Right(e.target) = N.x
                   ELSE IF Hidden(e, R, N)
                   THEN /\ e.part = <<Right(R) - Right(N), R.w>>
                        /\ e.target.x = Right(N)
                        /\ Right(e.target) = Right(R)
                   ELSE /\ e.part = <<>>
                        /\ e.drawn = "cache" => e.target = R

\* C16, the clipped images that overlap their neighbour in part are drawn as
\* stated: whenever the neighbour's near edge lies inside the image, the
\* fraction is the uncovered proportion
C16_PartlyCovered ==
    Painted =>
        \A e \in PaintedEntries :
            LET c == CenterIndex(pos, Count)
                next == IF e.index < c THEN e.index + 1 ELSE e.index - 1
                R == getRenderInfo(Cur, e.index).fullRect
                N == getRenderInfo(Cur, next).fullRect
            IN  (Hidden(e, R, N) /\ e.part[1] >= 0 /\ e.part[1] <= e.part[2])
                    => e.part = <<Uncovered(e, R, N), R.w>>

\* a paint in which a side image lies entirely behind its neighbour: the
\* fraction handed to drawPixmap is negative
C16_CoveredEntirely ==
    Painted /\ \E e \in PaintedEntries : e.part # <<>> /\ e.part[1] < 0

\* C17: with imagesPerSide 0 and images set, at every position a paint and an
\* indexAt return without an exception, and a paint draws the image at the
\* center index and no other
C17_OnlyCenterAtZeroPerSide ==
    (o["imagesPerSide"].n = 0 /\ Count > 0 /\ pos # None
        /\ call.op \in {"paintEvent", "indexAt"})
    => /\ call.raised = "None"
       /\ call.op = "paintEvent" =>
              \A e \in PaintedEntries : e.index = CenterIndex(pos, Count)

\* C17 at rest: with imagesPerSide 0 at an integer position a paint and an
\* indexAt return, and a paint that renders draws the center image only
C17_AtRest ==
    (o["imagesPerSide"].n = 0 /\ Count > 0 /\ pos # None /\ pos % Scale = 0
        /\ call.op \in {"paintEvent", "indexAt"})
    => /\ call.raised = "None"
       /\ Painted =>
              /\ Len(call.painted) = 1
              /\ call.painted[1].index = pos \div Scale

\* a paint with imagesPerSide 0 at a position between two indices
C17_BetweenIndices ==
    /\ call.op = "paintEvent"
    /\ o["imagesPerSide"].n = 0
    /\ Count > 0
    /\ pos # None
    /\ pos % Scale # 0

\* the indices renderImages lays out at the position
VisibleIndices ==
    LET order == PaintOrder(pos, Count, o["imagesPerSide"].n)
    IN  {order[k] : k \in DOMAIN order}

\* the lateral offset of the info lies in [-1, 1], its depth is at least 0 and
\* its scale factor lies in [minScale, 1]
InBounds(info) ==
    /\ info.lx >= 0 - Unit
    /\ info.lx <= Unit
    /\ info.z >= 0
    /\ info.scale >= OnGrid(o["minScale"])
    /\ info.scale <= Unit

----------------------------------------------------------------------------
(* Options *)

\* C15: after setOptions({k: v}) has succeeded, the option k equals v (as
\* Python compares: 1 == 1.0 == True) and every other option has the value it
\* had
C15_RoundTrip ==
    [][(call'.op = "setOption" /\ call'.raised = "None") =>
           /\ PyEq(o'[call'.arg[1]], call'.arg[2])
           /\ \A key \in OptionKeys \ {call'.arg[1]} : o'[key] = o[key]]_vars

\* an option has been set to a value that is not its default's while another
\* one was already changed
C15_Witness ==
    /\ call.op = "setOption"
    /\ call.raised = "None"
    /\ o[call.arg[1]] = call.arg[2]
    /\ Cardinality(Changed(o)) = 2
    /\ call.arg[1] \in Changed(o)

----------------------------------------------------------------------------
(* The worker *)

\* artifact(options): what createCache builds from the current options
Fresh(image) == image.cache = CreateCache(image, o).cache

\* C12: when Worker.reset() is about to return to setOptions (the wait is over)
\* the worker is not inside createCache and its work list is empty; and between
\* handlers no image is in STATE_READY with anything but the artifact of the
\* current size
C12_ResetQuiesces ==
    /\ (ui = "reset_wait" /\ worker.emptyEvent = "Set") =>
            ~InCreateCache(worker) /\ worker.loadList = <<>>
    /\ (ui = "idle" /\ call.raised = "None") =>
            \A i \in DOMAIN images : images[i].state = STATE_READY => Fresh(images[i])

\* C13: an image in STATE_READY has its artifact completely built, whenever the
\* UI thread looks
C13_ReadyIsBuilt ==
    \A i \in DOMAIN images : images[i].state = STATE_READY => images[i].cache.kind = "Built"

\* C14: createCache starts only for an image in STATE_INIT for which it has not
\* run since the caches were last cleared, so it runs at most once per image
\* between two invalidations; and only images in STATE_INIT are handed to the
\* worker
C14_BuiltOnce ==
    [][/\ \A i \in DOMAIN images \cap DOMAIN images' :
              images'[i].builds > images[i].builds =>
                  /\ images[i].state = STATE_INIT
                  /\ images[i].builds = 0
                  /\ images'[i].builds = 1
       /\ (DoPaintEvent /\ dirty) =>
              \A k \in DOMAIN worker'.loadList :
                  images[worker'.loadList[k] + 1].state = STATE_INIT]_vars

\* every image has been built once, by the worker or by the paint, and stays so
\* at the next paint
C14_Witness ==
    /\ images # <<>>
    /\ \A i \in DOMAIN images : images[i].state # STATE_INIT /\ images[i].builds = 1
    /\ call.op = "paintEvent"
    /\ ~dirty

\* C20: under fair scheduling every call of Worker.reset returns: the UI
\* thread, once inside reset, is eventually back in the event loop
C20_ResetReturns == (ui = "reset_load") ~> (ui = "idle")

\* C20 for a worker thread that is in its loop: a reset that is entered while
\* the thread is running (no shutdown, no exception in it) and stays so returns
C20_ReturnsWhileThreadRuns ==
    (ui = "reset_load") ~> (ui = "idle" \/ ~worker.running \/ worker.pc = "dead")

\* the UI thread waits in reset for a worker thread that has ended
C20_BlockedForever ==
    ui = "reset_wait" /\ worker.emptyEvent # "Set" /\ worker.pc \in {"done", "dead"}

\* C21: whenever the worker thread, after it has found _emptyEvent not None,
\* calls self._emptyEvent.set(), the attribute is still an event: the call never
\* raises and the thread does not end in the reset handshake
C21_HandshakeNeverFails ==
    [][WorkerSet => (worker.emptyEvent # "None" /\ worker'.pc # "dead")]_vars

\* C21 for a single reset: a worker thread that meets the event of a reset for
\* the first time sets it
C21_FirstSetSucceeds ==
    [][(WorkerSet /\ worker.emptyEvent = "Clear") => worker'.emptyEvent = "Set"]_vars

\* the worker thread has tested _emptyEvent and is about to call set() on it,
\* and the UI thread has returned from reset and set the attribute to None
C21_SetOnNone ==
    worker.pc = "set" /\ worker.emptyEvent = "None" /\ ui = "idle"

\* the i-th image is in the visible range and in STATE_INIT
PendingVisible(i) ==
    /\ i <= Count
    /\ pos # None
    /\ (i - 1) \in VisibleIndices
    /\ images[i].state = STATE_INIT

\* the i-th image is in STATE_READY or STATE_FAILED
Loaded(i) == i <= Count /\ images[i].state # STATE_INIT

\* C22: with a worker, at a position and with options that do not change,
\* every image of the visible range that is in STATE_INIT eventually is in
\* STATE_READY or STATE_FAILED
C22_VisibleImagesLoad ==
    \A i \in 1..MaxWorkerCount :
        (worker.present /\ PendingVisible(i)) ~> Loaded(i)

\* C22 when Qt starts the worker's timer from the worker thread: then every
\* image of the visible range is loaded
C22_LoadWhenTimerStarts ==
    \A i \in 1..MaxWorkerCount :
        (worker.present /\ worker.timerStarts /\ PendingVisible(i)) ~> Loaded(i)

\* C22, the order: the image the worker thread builds is the first of the list
\* it has read, which paintEvent has ordered from the center outward
\* (_centerRange), and it was in STATE_INIT when the thread took it
C22_NearestFirst ==
    [][(WorkerLoop /\ worker'.pc = "assign") =>
          /\ worker'.job.index = worker.loadList[1] + 1
          /\ images[worker.loadList[1] + 1].state = STATE_INIT]_vars

\* the worker thread goes round its loop on a list whose first image is
\* loaded while another image of the list is in STATE_INIT, the timer is not
\* running and no repaint is due
C22_StuckOnList ==
    /\ worker.pc = "loop"
    /\ worker.loadList # <<>>
    /\ images[worker.loadList[1] + 1].state # STATE_INIT
    /\ \E k \in DOMAIN worker.loadList : images[worker.loadList[k] + 1].state = STATE_INIT
    /\ ~worker.timer
    /\ ~worker.timerStarts
    /\ ~dirty

----------------------------------------------------------------------------
(* The empty flow *)

\* the operations on the position, by the name call records
PositionOps ==
    {"showNext", "showPrevious", "showPosition", "setPosition", "indexAt",
     "keyPressEvent", "wheelEvent", "Animator.update"}

\* C23: with no images and the position undefined, every operation on the
\* position and every tick of the animator returns without an exception and
\* leaves the position undefined
C23_EmptyFlowIsInert ==
    [][(Count = 0 /\ pos = None /\ call'.op \in PositionOps)
          => (call'.raised = "None" /\ pos' = None /\ Count' = 0)]_vars

\* C23 for the wheel: with no images, the position undefined and no animation
\* started, a wheel event returns, starts no animation and leaves the position
\* undefined
C23_WheelIsInert ==
    [][(Count = 0 /\ pos = None /\ target = None /\ call'.op = "wheelEvent")
          => (call'.raised = "None" /\ pos' = None /\ target' = None /\ ~timerActive')]_vars

\* no images, and showNext has raised
C23_ShowNextRaised ==
    Count = 0 /\ pos = None /\ call.op = "showNext" /\ call.raised = "TypeError"

\* no images, and setPosition has set the position to 0
C23_PositionSetOnEmpty ==
    Count = 0 /\ pos = 0 /\ call.op = "setPosition" /\ paths = 0

====
